---- MODULE Spec2Model ----
(***************************************************************************)
(* Model of stacked-react-router: the HistoryTracker (backlink chain), the *)
(* LocationLocker (navigation lock), the asynchronous navigation facade    *)
(* (useAdvancedHistory) and the StackRouter transition state machine, over *)
(* a native history stack (the `history` package, v4 interface).           *)
(***************************************************************************)
EXTENDS Naturals, Integers, Sequences, FiniteSets, TLC

\* ------------------------------------------------------------------ bounds
MaxKeys == 3        \* entries ever created after the initial one
MaxPending == 1     \* go() calls whose pop notification is not yet delivered
MaxTokens == 2      \* direct lock() callers (besides the facade operations)
MaxUpdates == 3     \* setOverride calls queued between two renders
MaxRouterKeys == 2  \* entries created under a mounted StackRouter
MaxLocks == 3       \* lock count reached by navigate() calls

\* ------------------------------------------------------------------ values
\* "no previousLoc" (state.previousLoc undefined)
NoPrev == [key |-> 0, pathname |-> "", search |-> ""]

\* history.location of an entry: key, pathname, search and the state blob
\* { previousLoc?, transition? }; ref is the identity of the previousLoc
\* object (0: none), which === compares.
Entry(k, p, s, prev, tr) ==
    [key |-> k, pathname |-> p, search |-> s, prev |-> prev, tr |-> tr, ref |-> 0]

\* { ...location, state: void 0 }: the location with its own state dropped
StripState(loc) == [key |-> loc.key, pathname |-> loc.pathname, search |-> loc.search]

\* state passed by a caller of push/replace: { previousLoc?, transition? }
\* (undefined and {} alike: neither key set); a previousLoc in it is an object
\* of the caller's
CallerState(prev, tr) ==
    [prev |-> prev, tr |-> tr, ref |-> IF prev = NoPrev THEN 0 ELSE -2]
NoState == CallerState(NoPrev, "unset")

\* a path given as a string: pathname and search
Path(p, s) == [pathname |-> p, search |-> s]

\* a path given as an object (LocationDescriptor): { pathname, search, state? }
Descriptor(p, s, hasState, st) ==
    [pathname |-> p, search |-> s, hasState |-> hasState, state |-> st]

\* typeof path === 'object' && path != null
IsObject(path) == "state" \in DOMAIN path

\* createLocation(path, state): the state of the location made. A string
\* path takes the state argument; an object path keeps its own state and
\* takes the argument only when it has none.
createLocationState(path, state) ==
    IF IsObject(path) THEN (IF path.hasState THEN path.state ELSE state)
    ELSE state

\* the location createLocation(path, state, createKey()) makes
createLocation(k, path, state) ==
    LET st == createLocationState(path, state)
    IN [key |-> k, pathname |-> path.pathname, search |-> path.search,
        prev |-> st.prev, tr |-> st.tr, ref |-> st.ref]

VARIABLES
    entries,        \* native stack: sequence of entries
    index,          \* native cursor, 1..Len(entries)
    action,         \* history.action: "POP" | "PUSH" | "REPLACE"
    nextKey,        \* next key createKey() hands out
    pending,        \* go(n) deltas issued, pop notification not yet delivered
    lastLocation,   \* HistoryTracker._lastLocation
    listening,      \* HistoryTracker: its listener is attached (until close())
    lastMut,        \* observation: the latest wrapped push/replace call
    lockCount,      \* LocationLocker lockCount.current
    updates,        \* setOverride calls queued, not yet applied by a render
    locationOverride, \* LocationLocker locationOverride state (NoLoc = null)
    tokens,         \* unlock functions handed to direct callers of lock()
    lockError,      \* the lock() updater threw "Location is already locked"
    shown,          \* location the LocationLocker exposed at its last render
    lockedAt,       \* observation: history.location when the count last went 0 -> 1
    ops,            \* facade operations: one record per caller slot
    sr,             \* StackRouterImpl state
    srProps,        \* props StackRouterImpl rendered with last (location, action)
    srObs,          \* observation: the latest location change the router handled
    tabNav,         \* observation: the latest getNavigationType call of a TabLink
    partialObs      \* observation: the latest locationPartialMatches call

nativeVars == <<entries, index, action, nextKey, pending>>
trackerVars == <<lastLocation, listening, lastMut>>
lockerVars == <<lockCount, updates, locationOverride, tokens, lockError, shown, lockedAt>>
routerVars == <<sr, srProps, srObs, tabNav, partialObs>>
vars == <<entries, index, action, nextKey, pending, lastLocation, listening, lastMut,
          lockCount, updates, locationOverride, tokens, lockError, shown, lockedAt, ops,
          sr, srProps, srObs, tabNav, partialObs>>

\* history.location
Location == entries[index]

NoLoc == Entry(0, "", "", NoPrev, "unset")
NoMut == [kind |-> "none", before |-> NoLoc, made |-> NoLoc, caller |-> NoState]

\* ------------------------------------------------- native stack + tracker
\* The part of the state the history object and the tracker own, as a record,
\* so that a call made from inside a change listener composes with its caller.
World == [entries |-> entries, index |-> index, action |-> action,
          nextKey |-> nextKey, last |-> lastLocation, listening |-> listening,
          mut |-> lastMut]

\* sourcePush: a new entry with a fresh key on top of the cursor, dropping
\* every entry above it (no notification yet).
sourcePush(w, path, state) ==
    [w EXCEPT !.entries = Append(SubSeq(w.entries, 1, w.index),
                                 createLocation(w.nextKey, path, state)),
              !.index = w.index + 1,
              !.action = "PUSH",
              !.nextKey = w.nextKey + 1]

\* sourceReplace: the entry under the cursor is replaced by a new entry with
\* a fresh key (no notification yet).
sourceReplace(w, path, state) ==
    [w EXCEPT !.entries = [w.entries EXCEPT ![w.index] =
                                 createLocation(w.nextKey, path, state)],
              !.action = "REPLACE",
              !.nextKey = w.nextKey + 1]

\* previousLoc the push wrapper embeds: { ...this._lastLocation, state: void 0 }
PushPreviousLoc(w) == StripState(w.last)

\* history.push as replaced by the tracker, up to the call of sourcePush: the
\* new previousLoc object goes into path.state when the path is an object
\* (the state argument is passed on untouched), into the state argument
\* otherwise
wrappedPush(w, path, state) ==
    LET previousLoc == PushPreviousLoc(w)
        withPrev(st) == [st EXCEPT !.prev = previousLoc, !.ref = w.nextKey]
        path1 == IF IsObject(path)
                 THEN [path EXCEPT !.hasState = TRUE,
                                   !.state = withPrev(IF path.hasState THEN path.state
                                                      ELSE NoState)]
                 ELSE path
        state1 == IF IsObject(path) THEN state ELSE withPrev(state)
        w1 == sourcePush(w, path1, state1)
    IN [w1 EXCEPT !.mut = [kind |-> "push", before |-> w.entries[w.index],
                           made |-> w1.entries[w1.index],
                           caller |-> createLocationState(path, state)]]

\* previousLoc the replace wrapper reads: currentLocation.state.previousLoc
ReplacePreviousLoc(w) == w.last.prev

\* history.replace as replaced by the tracker, up to the call of
\* sourceReplace: with a previousLoc to keep, that same object goes into
\* path.state (object path) or into the state argument; without one both
\* arguments are passed on untouched
wrappedReplace(w, path, state) ==
    LET previousLoc == ReplacePreviousLoc(w)
        withPrev(st) == [st EXCEPT !.prev = previousLoc, !.ref = w.last.ref]
        path1 == IF previousLoc # NoPrev /\ IsObject(path)
                 THEN [path EXCEPT !.hasState = TRUE,
                                   !.state = withPrev(IF path.hasState THEN path.state
                                                      ELSE NoState)]
                 ELSE path
        state1 == IF previousLoc # NoPrev /\ ~IsObject(path) THEN withPrev(state)
                  ELSE state
        w1 == sourceReplace(w, path1, state1)
    IN [w1 EXCEPT !.mut = [kind |-> "replace", before |-> w.entries[w.index],
                           made |-> w1.entries[w1.index],
                           caller |-> createLocationState(path, state)]]

\* the tracker's change listener
trackerListener(w, newLoc) == IF w.listening THEN [w EXCEPT !.last = newLoc] ELSE w

\* What a change listener registered before the tracker's does when called:
\* nothing, or a call of history.push / history.replace.
NoCall == [kind |-> "none", path |-> Path("", ""), state |-> NoState]
Call(kind, path, state) == [kind |-> kind, path |-> path, state |-> state]
KeysUsed(re) == IF re.kind = "none" THEN 0 ELSE 1

\* notifyListeners(location, action): the listeners in registration order.
\* A listener registered before the tracker's may call push/replace; that
\* call notifies every listener of its own location before it returns, and
\* the outer round then goes on with the outer location.
notifyListeners(w, newLoc, re) ==
    LET inner == IF re.kind = "push" THEN wrappedPush(w, re.path, re.state)
                 ELSE wrappedReplace(w, re.path, re.state)
        w1 == IF re.kind = "none" THEN w
              ELSE trackerListener(inner, inner.entries[inner.index])
    IN trackerListener(w1, newLoc)

historyPush(w, path, state, re) ==
    LET w1 == wrappedPush(w, path, state)
    IN notifyListeners(w1, w1.entries[w1.index], re)

historyReplace(w, path, state, re) ==
    LET w1 == wrappedReplace(w, path, state)
    IN notifyListeners(w1, w1.entries[w1.index], re)

\* clamp(index + n, 0, length - 1), on 1-based positions
Clamp(i, len) == IF i < 1 THEN 1 ELSE IF i > len THEN len ELSE i

\* the pop notification of go(n): the cursor moves, action POP, listeners run
historyPop(w, n, re) ==
    LET i == Clamp(w.index + n, Len(w.entries))
        w1 == [w EXCEPT !.index = i, !.action = "POP"]
    IN notifyListeners(w1, w1.entries[i], re)

SetWorld(w) ==
    /\ entries' = w.entries
    /\ index' = w.index
    /\ action' = w.action
    /\ nextKey' = w.nextKey
    /\ lastLocation' = w.last
    /\ listening' = w.listening
    /\ lastMut' = w.mut


\* ------------------------------------------------------------ StackRouter
\* The route elements given to StackRouter, in order (Fragments flattened, as
\* getActiveRoute walks them): the pathnames each matches, and whether the
\* element is a RouteGroup / TabRouter.
Route(paths, isGroup) == [paths |-> paths, isGroup |-> isGroup]
Routes == << Route({"/a", "/b"}, TRUE), Route({"/c"}, TRUE), Route({"/x", "/y"}, FALSE) >>

\* routeElementMatchesPath(child, pathname)
routeElementMatchesPath(i, pathname) == pathname \in Routes[i].paths

\* getActiveRoute: the first element that matches, 0 for null
getActiveRoute(location) ==
    LET hits == {i \in DOMAIN Routes : routeElementMatchesPath(i, location.pathname)}
    IN IF hits = {} THEN 0 ELSE CHOOSE i \in hits : \A j \in hits : i <= j

\* getLocationRouteGroup: the active element when it is a group, 0 for null
getLocationRouteGroup(location) ==
    LET activeChild == getActiveRoute(location)
    IN IF activeChild = 0 THEN 0
       ELSE IF Routes[activeChild].isGroup THEN activeChild ELSE 0

areLocationsEqual(a, b) == a.pathname = b.pathname /\ a.search = b.search

areLocationsInSameGroup(locationA, locationB) ==
    IF areLocationsEqual(locationA, locationB) THEN TRUE
    ELSE LET groupA == getLocationRouteGroup(locationB)
         IN groupA # 0 /\ groupA = getLocationRouteGroup(locationA)

isNextPage(from, to) ==
    IF from = NoLoc THEN FALSE
    ELSE ~(from.prev # NoPrev /\ from.prev.key = to.key)

\* the state StackRouterImpl is constructed with (null: NoLoc / key 0)
SrInitial == [isNextPage |-> FALSE, renderPreviousData |-> FALSE,
              previousLocation |-> NoLoc, keyOverride |-> 0, previousKey |-> 0,
              oldPropsLocation |-> NoLoc, from |-> NoLoc]

\* the props of StackRouterImpl: location, history.action, and whether the
\* optional transition prop is given
Props(location, act, transition) ==
    [location |-> location, action |-> act, transition |-> transition]

\* newLocation.state?.transition ?? (newProps.history.action !== 'REPLACE')
shouldTransition(newProps) ==
    IF newProps.location.tr = "on" THEN TRUE
    ELSE IF newProps.location.tr = "off" THEN FALSE
    ELSE newProps.action # "REPLACE"

\* getDerivedStateFromProps, merged into the old state
getDerivedStateFromProps(newProps, oldState) ==
    LET oldPropsLocation == oldState.oldPropsLocation
        keyOverride == oldState.keyOverride
        newLocation == newProps.location
    IN IF ~shouldTransition(newProps)
       THEN [oldState EXCEPT
               !.keyOverride = IF keyOverride # 0 THEN keyOverride
                               ELSE IF oldPropsLocation # NoLoc THEN oldPropsLocation.key
                               ELSE newLocation.key,
               !.oldPropsLocation = newLocation]
       ELSE IF oldPropsLocation = NoLoc
               \/ ~areLocationsInSameGroup(newLocation, oldPropsLocation)
       THEN [oldState EXCEPT
               !.renderPreviousData = oldPropsLocation # NoLoc,
               !.previousLocation = oldPropsLocation,
               !.previousKey = keyOverride,
               !.oldPropsLocation = newLocation,
               !.keyOverride = newLocation.key,
               !.isNextPage = isNextPage(oldPropsLocation, newLocation),
               !.from = oldPropsLocation]
       ELSE oldState

\* componentDidUpdate clearing the flag only
componentDidUpdateFlagOnly(state) == [state EXCEPT !.renderPreviousData = FALSE]

\* the updater componentDidUpdate passes to setState
componentDidUpdate(state) ==
    IF state.renderPreviousData
    THEN [state EXCEPT !.renderPreviousData = FALSE,
                       !.previousLocation = NoLoc,
                       !.previousKey = 0]
    ELSE state

\* render(): the location and key of the one child rendered, and shouldAnimate
isInRouteGroup(location) == getLocationRouteGroup(location) # 0
RenderedLocation(st, props) ==
    IF st.renderPreviousData THEN st.previousLocation ELSE props.location
RenderedKey(st) == IF st.renderPreviousData THEN st.previousKey ELSE st.keyOverride
shouldAnimate(st, props) ==
    st.from # NoLoc /\ ~(isInRouteGroup(st.from) /\ isInRouteGroup(props.location))

\* renderChildren: the child put in the TransitionGroup, its key, and whether
\* it gets the transition's animation parameters; no child (null: NoLoc
\* under key 0) when no route matches the location
renderChildren(props, location, animate, key) ==
    IF getActiveRoute(location) = 0
    THEN [location |-> NoLoc, key |-> 0, animated |-> FALSE]
    ELSE [location |-> location, key |-> key,
          animated |-> animate /\ props.transition]

\* render()
render(st, props) ==
    renderChildren(props, RenderedLocation(st, props), shouldAnimate(st, props),
                   RenderedKey(st))

\* the location of the screen renderChildren gives a location, NoLoc for none
Screen(location) == IF getActiveRoute(location) = 0 THEN NoLoc ELSE location

\* no StackRouter mounted
NoRouter == <<>>
NoObs == [from |-> NoLoc, to |-> NoLoc, action |-> "", retained |-> FALSE,
          keyBefore |-> 0, keyAfter |-> 0, animate |-> FALSE,
          old |-> NoLoc, fromBefore |-> NoLoc, fromAfter |-> NoLoc,
          rendered |-> NoLoc, isNextPage |-> FALSE]

\* what a render pass does to a mounted StackRouter given its new props
RenderRouter(newProps) ==
    IF sr = NoRouter THEN UNCHANGED routerVars
    ELSE LET st == getDerivedStateFromProps(newProps, sr)
         IN /\ sr' = st
            /\ srProps' = newProps
            /\ srObs' = IF newProps.location = srProps.location THEN srObs
                        ELSE [from |-> srProps.location, to |-> newProps.location,
                              action |-> newProps.action,
                              retained |-> st.renderPreviousData,
                              keyBefore |-> RenderedKey(sr),
                              keyAfter |-> st.keyOverride,
                              animate |-> render(st, newProps).animated,
                              old |-> sr.oldPropsLocation,
                              fromBefore |-> sr.from,
                              fromAfter |-> st.from,
                              rendered |-> render(st, newProps).location,
                              isNextPage |-> st.isNextPage]
            /\ UNCHANGED <<tabNav, partialObs>>


\* -------------------------------------------------------------- TabRouter
\* pathnames as matchPath sees them: their segments
Segs(pathname) ==
    CASE pathname = "/a" -> <<"a">>
      [] pathname = "/a/n" -> <<"a", "n">>
      [] pathname = "/b" -> <<"b">>
      [] pathname = "/c" -> <<"c">>
      [] pathname = "/x" -> <<"x">>
      [] pathname = "/y" -> <<"y">>
      [] OTHER -> <<>>

\* matchPath(string, { exact, path }); the string is a pathname and what
\* follows it (the search of a destination handed over whole): the path's
\* segments lead the pathname's, a segment ends at a slash or at the end of
\* the string, and with exact nothing follows the path's segments
matchPath(string, path, exact) ==
    LET a == Segs(string.pathname)
        b == Segs(path)
    IN /\ a # <<>> /\ b # <<>>
       /\ Len(b) <= Len(a)
       /\ SubSeq(a, 1, Len(b)) = b
       /\ Len(a) = Len(b) => string.search = ""
       /\ exact => Len(a) = Len(b)

\* a path template: a string (param FALSE: exact, no matcher) or a
\* ParameterisedPath with its exact flag and its pathMatcher, given as the
\* searches the matcher accepts
AnySearch == {"", "?i"}
PlainPath(path) == [path |-> path, exact |-> TRUE, param |-> FALSE, accepts |-> AnySearch]
ParameterisedPath(path, exact, accepts) ==
    [path |-> path, exact |-> exact, param |-> TRUE, accepts |-> accepts]

\* the props of a TabRouter: path templates and the index template
TabProps(paths, idx) == [paths |-> paths, index |-> idx]
TabConfigs ==
    << TabProps(<<PlainPath("/a"), PlainPath("/b")>>, PlainPath("/a")),
       TabProps(<<ParameterisedPath("/a", FALSE, AnySearch), PlainPath("/b")>>,
                ParameterisedPath("/a", FALSE, AnySearch)),
       TabProps(<<ParameterisedPath("/a", TRUE, AnySearch), PlainPath("/b")>>,
                ParameterisedPath("/a", TRUE, {"?i"})),
       TabProps(<<PlainPath("/a"), PlainPath("/b")>>, PlainPath("/x")) >>

\* matchPathExtended(newLocation, pathTemplate): a string destination goes
\* to matchPath whole, of a location or descriptor its pathname; the matcher
\* of a ParameterisedPath gets the location (a string parsed by createLocation)
matchPathExtended(newLocation, pathTemplate) ==
    LET locationPathname == IF DOMAIN newLocation = {"pathname", "search"}
                            THEN newLocation
                            ELSE [pathname |-> newLocation.pathname, search |-> ""]
    IN IF ~matchPath(locationPathname, pathTemplate.path, pathTemplate.exact) THEN FALSE
       ELSE IF ~pathTemplate.param THEN TRUE
       ELSE newLocation.search \in pathTemplate.accepts

isLocationTabIndex(loc, props) == matchPathExtended(loc, props.index)

isLocationInTabGroup(loc, props) ==
    \E i \in DOMAIN props.paths : matchPathExtended(loc, props.paths[i])

\* isPreviousLocIndex: the pathname string of fromLocation.state.previousLoc
\* is what is matched (a string carries no search of its own here)
isPreviousLocIndex(fromLocation, props) ==
    IF fromLocation.prev = NoPrev \/ fromLocation.prev.pathname = "" THEN FALSE
    ELSE isLocationTabIndex(Path(fromLocation.prev.pathname, ""), props)

\* getNavigationType(destination)
getNavigationType(fromLocation, destination, props) ==
    IF ~isLocationInTabGroup(fromLocation, props) THEN "PUSH"
    ELSE IF ~isLocationInTabGroup(destination, props) THEN "PUSH"
    ELSE IF isLocationTabIndex(fromLocation, props) THEN "PUSH"
    ELSE IF isLocationTabIndex(destination, props) /\ isPreviousLocIndex(fromLocation, props)
    THEN "POP"
    ELSE "REPLACE"

NoNav == [props |-> 0, from |-> NoLoc, dest |-> Path("", ""), type |-> ""]

\* a TabLink inside TabRouter number c renders with `to` = destination:
\* fromLocation is useLocation(), the location the router exposes
TabLinkRender(c, destination) ==
    /\ tabNav' = [props |-> c, from |-> Location, dest |-> destination,
                  type |-> getNavigationType(Location, destination, TabConfigs[c])]
    /\ UNCHANGED <<nativeVars, trackerVars, lockerVars, ops, sr, srProps, srObs, partialObs>>

\* ------------------------------------------------------- LocationLocker
TokenIds == 1 .. MaxTokens

\* a queued setOverride call: setOverride(null) ("clear"), the updater of
\* lock() still to be run ("lock"), or that updater already run by React when
\* it was queued, with the location it returned ("eager")
Upd(kind, loc) == [kind |-> kind, loc |-> loc]

\* lock(): ++lockCount.current; the first holder queues the updater that
\* takes the snapshot. React may run the updater at once when nothing else is
\* queued (a throw of that early run is swallowed and the updater is run
\* again by the render); otherwise it runs when the component next renders.
LockQueues(count, q, ov, live, eager) ==
    IF count + 1 # 1 THEN q
    ELSE IF eager /\ q = <<>> /\ ov = NoLoc THEN Append(q, Upd("eager", live))
    ELSE Append(q, Upd("lock", NoLoc))

\* unlock() that never calls setOverride(null)
UnlockQueuesNoClear(count, q) == q

\* unlock() of a live token: --lockCount.current; the last one queues
\* setOverride(null).
UnlockQueues(count, q) == IF count - 1 = 0 THEN Append(q, Upd("clear", NoLoc)) ELSE q

\* React applies the queued setOverride calls in order when it renders: an
\* updater of lock() not run yet runs then, and reads history.location then.
RECURSIVE ApplyUpdates(_, _, _)
ApplyUpdates(ov, q, live) ==
    IF q = <<>> THEN [ov |-> ov, err |-> FALSE]
    ELSE IF Head(q).kind = "clear" THEN ApplyUpdates(NoLoc, Tail(q), live)
    ELSE IF Head(q).kind = "eager" THEN ApplyUpdates(Head(q).loc, Tail(q), live)
    ELSE IF ov # NoLoc THEN [ov |-> ov, err |-> TRUE]
    ELSE ApplyUpdates(live, Tail(q), live)

\* <Route location={locationOverride || location}>
Exposed(ov, live) == IF ov # NoLoc THEN ov ELSE live

\* componentDidUpdate has cleared the retained screen (it does so
\* synchronously, in the commit of the render that retained it)
RouterCommitted == IF sr = NoRouter THEN TRUE ELSE ~sr.renderPreviousData

\* a render pass: LocationLocker applies the queued updates and exposes a
\* location; a StackRouter below it derives its state from that location
Render ==
    /\ ~lockError
    /\ RouterCommitted
    /\ \/ updates # <<>>
       \/ shown # Exposed(locationOverride, Location)
       \/ sr # NoRouter /\ srProps.action # action
    /\ LET r == ApplyUpdates(locationOverride, updates, Location)
           loc == IF r.err THEN shown ELSE Exposed(r.ov, Location)
       IN /\ locationOverride' = r.ov
          /\ lockError' = r.err
          /\ shown' = loc
          /\ RenderRouter(Props(loc, action, srProps.transition))
    /\ updates' = <<>>
    /\ UNCHANGED <<nativeVars, trackerVars, lockCount, tokens, lockedAt, ops>>

\* componentDidUpdate: the retained screen is dropped and the component
\* renders again with the same props
DidUpdate ==
    /\ sr # NoRouter
    /\ sr.renderPreviousData
    /\ sr' = getDerivedStateFromProps(srProps, componentDidUpdate(sr))
    /\ UNCHANGED <<nativeVars, trackerVars, lockerVars, ops, srProps, srObs, tabNav, partialObs>>

\* history.location at the lock() call that makes the count 1
LiveAtLock(count, at, live) == IF count + 1 = 1 THEN live ELSE at

\* a direct caller takes a lock: lock()
Lock(t) ==
    /\ tokens[t] = "unused"
    /\ Len(updates) < MaxUpdates
    /\ lockCount' = lockCount + 1
    /\ \E eager \in BOOLEAN :
          updates' = LockQueues(lockCount, updates, locationOverride, Location, eager)
    /\ tokens' = [tokens EXCEPT ![t] = "held"]
    /\ lockedAt' = LiveAtLock(lockCount, lockedAt, Location)
    /\ UNCHANGED <<nativeVars, trackerVars, locationOverride, lockError, shown, ops, routerVars>>

\* the unlock function without its `dead` flag
UnlockIsNoopNoFlag(tokenState) == FALSE

\* if (dead) return; (the unlock function called again)
UnlockIsNoop(tokenState) == tokenState \in {"dead", "again"}

\* a direct caller calls the unlock function it was handed
Unlock(t) ==
    /\ tokens[t] # "unused"
    /\ IF UnlockIsNoop(tokens[t])
       THEN /\ UNCHANGED <<lockCount, updates>>
            /\ tokens' = [tokens EXCEPT ![t] = "again"]
       ELSE /\ Len(updates) < MaxUpdates
            /\ lockCount' = lockCount - 1
            /\ updates' = UnlockQueues(lockCount, updates)
            /\ tokens' = [tokens EXCEPT ![t] = "dead"]
    /\ UNCHANGED <<nativeVars, trackerVars, locationOverride, lockError, shown, lockedAt, ops, routerVars>>


\* ------------------------------------------------------ navigation facade
OpIds == {1, 2}

NoPath == "<none>"
NoFb == Path(NoPath, "")
\* Partial<Location>: key 0 / pathname NoPath / state <<>> mean "not given"
Partial(k, p, st) == [key |-> k, pathname |-> p, state |-> st]
NoPartialState == [k \in {} |-> 0]
NoTarget == Partial(0, NoPath, NoPartialState)

\* values held under the keys of a state object: a primitive (compared by
\* value) or an object (compared by reference: ref names the object)
Prim(v) == [ref |-> 0, v |-> v]
Obj(ref) == [ref |-> ref, v |-> ""]
\* an object the caller made itself: no entry holds that reference
OwnObject == Obj(-1)

\* location.state || {} as the mapping the caller sees: transition holds a
\* boolean, previousLoc the object stored in the entry (the one the push
\* wrapper made, handed on by the replace wrapper)
LocState(e) ==
    [k \in {x \in {"previousLoc", "transition"} :
               \/ x = "previousLoc" /\ e.prev # NoPrev
               \/ x = "transition" /\ e.tr # "unset"} |->
        IF k = "previousLoc" THEN Obj(e.ref) ELSE Prim(e.tr)]

\* locState[key]: undefined for a key the state does not have
Undefined == Prim("undefined")
StateValue(st, k) == IF k \in DOMAIN st THEN st[k] ELSE Undefined

\* locationPartialMatches that also compares the search
locationPartialMatchesSearch(location, partial) ==
    /\ location.search = ""
    /\ partial.key # 0 => location.key = partial.key
    /\ partial.pathname # NoPath => partial.pathname = location.pathname
    /\ \A k \in DOMAIN partial.state :
            StateValue(LocState(location), k) = partial.state[k]

locationPartialMatches(location, partial) ==
    IF partial.key # 0 /\ location.key # partial.key THEN FALSE
    ELSE IF partial.pathname # NoPath /\ partial.pathname # location.pathname THEN FALSE
    ELSE \A k \in DOMAIN partial.state :
            ~(StateValue(LocState(location), k) # partial.state[k])

NoPartialObs == [location |-> NoLoc, partial |-> NoTarget, result |-> FALSE, called |-> FALSE]

\* locationPartialMatches(history.location, partial) is called
MatchPartial(partial) ==
    /\ partialObs' = [location |-> Location, partial |-> partial,
                      result |-> locationPartialMatches(Location, partial),
                      called |-> TRUE]
    /\ UNCHANGED <<nativeVars, trackerVars, lockerVars, ops, sr, srProps, srObs, tabNav>>

Idle == [kind |-> "none", pc |-> "idle", phase |-> "", guard |-> FALSE, n |-> 0,
         target |-> NoTarget, fb |-> NoFb, st |-> NoState, startKey |-> 0,
         lock |-> "none", result |-> "none", issued |-> 0,
         stack0 |-> <<>>, index0 |-> 0, shown0 |-> NoLoc,
         callback |-> "none", count0 |-> 0]

\* the operations that run their body through navigate(callback, lock)
UsesNavigate(kind) == kind \in {"toKey", "toMatch", "until"}

\* goBackAsync refusing whenever there is no previousLoc, guard or not
GoBackRefusesUnasked(loc, preventLeavingApp) == loc.prev = NoPrev

\* goBackAsync: preventLeavingApp set and no previousLoc on history.location
GoBackRefuses(loc, preventLeavingApp) == preventLeavingApp /\ loc.prev = NoPrev

\* the loop conditions of goBackToKeyImpl / goBackToMatchImpl / goBackUntilImpl
Matches(op, loc) ==
    IF op.kind = "toKey" THEN loc.key = op.target.key
    ELSE IF op.kind = "toMatch" THEN loc.pathname = op.target.pathname
    ELSE locationPartialMatches(loc, op.target)

\* every listener of waitForHistory resolves its promise on a notification
Notified(os) ==
    [o \in DOMAIN os |-> IF os[o].pc = "wait" THEN [os[o] EXCEPT !.pc = "ready"]
                         ELSE os[o]]

\* native mutations an operation has issued: 0, 1, or 2 for "two or more"
Issued(n) == IF n < 2 THEN n + 1 ELSE n

\* results of one run of an operation up to its next await
Out(op, w, pend, note) == [op |-> op, w |-> w, pend |-> pend, note |-> note]

\* the end of the operation: navigate() calls unlock() and returns, which
\* settles the promise it gave its caller; goBackUntil, an async function
\* around navigate(), settles its own promise in a later turn
Fin(op, res, w, pend, note) ==
    IF op.kind = "until" /\ op.lock = "held"
    THEN Out([op EXCEPT !.pc = "ready", !.phase = "settle", !.lock = "released"],
             w, pend, note)
    ELSE Out([op EXCEPT !.pc = "done", !.result = res,
                        !.lock = IF op.lock = "held" THEN "released" ELSE op.lock],
             w, pend, note)

\* waitForHistory(history, () => history.go(n)): listen, then go(n)
IssueGo(op, n, w, pend) ==
    Out([op EXCEPT !.pc = "wait", !.issued = Issued(op.issued)], w, Append(pend, n), FALSE)

\* waitForHistory(history, () => history.push(path, state)): the push notifies
\* synchronously, so the listener just attached has already resolved
IssuePush(op, path, st, w, pend) ==
    Out([op EXCEPT !.pc = "ready", !.issued = Issued(op.issued)],
        historyPush(w, path, st, NoCall), pend, TRUE)

IssueReplace(op, path, st, w, pend) ==
    Out([op EXCEPT !.pc = "ready", !.issued = Issued(op.issued)],
        historyReplace(w, path, st, NoCall), pend, TRUE)

\* the exhaustion path without goForwardToKeyImpl
RestoreSkipped(op, w, pend) ==
    Out([op EXCEPT !.pc = "ready", !.phase = "restored"], w, pend, FALSE)

\* goForwardToKeyImpl(history, startingKey): one turn of the while loop, on
\* history.location as it is when the turn runs
Restore(op, w, pend) ==
    LET loc == w.entries[w.index]
    IN IF loc.key # op.startKey
       THEN IssueGo([op EXCEPT !.phase = "restore"], 1, w, pend)
       ELSE Out([op EXCEPT !.pc = "ready", !.phase = "restored"], w, pend, FALSE)

\* the loop as a do-while: a step back before the first test
RewindDoWhile(op, w, pend) ==
    LET loc == w.entries[w.index]
    IN IF op.phase # "start" /\ Matches(op, loc)
            THEN Out([op EXCEPT !.pc = "ready", !.phase = "matched"], w, pend, FALSE)
       ELSE IF GoBackRefuses(loc, TRUE)
            THEN Out([op EXCEPT !.pc = "ready", !.phase = "refused"], w, pend, FALSE)
       ELSE IssueGo([op EXCEPT !.phase = "rewind"], -1, w, pend)

\* goBackToKeyImpl / goBackToMatchImpl: one turn of the while loop, the test
\* and the goBackAsync(history, true) it calls
Rewind(op, w, pend) ==
    LET loc == w.entries[w.index]
    IN IF Matches(op, loc)
            THEN Out([op EXCEPT !.pc = "ready", !.phase = "matched"], w, pend, FALSE)
       ELSE IF GoBackRefuses(loc, TRUE)
            THEN Out([op EXCEPT !.pc = "ready", !.phase = "refused"], w, pend, FALSE)
       ELSE IssueGo([op EXCEPT !.phase = "rewind"], -1, w, pend)

\* goBackUntilImpl passes no preventLeavingApp to goBackAsync
UntilGuard == FALSE

\* what goBackUntilImpl replaces with: the fallback, or the partial location
\* itself: its pathname (the current one when it has none) and its state,
\* whose previousLoc object is the one some entry holds or the caller's own
UntilFallback(op, w) ==
    LET st == op.target.state
        held == {i \in DOMAIN w.entries :
                    "previousLoc" \in DOMAIN st /\ w.entries[i].ref = st["previousLoc"].ref}
        state == [prev |-> IF "previousLoc" \notin DOMAIN st THEN NoPrev
                           ELSE IF held = {}
                           THEN [key |-> 1, pathname |-> "/a", search |-> ""]
                           ELSE w.entries[CHOOSE i \in held : TRUE].prev,
                  tr |-> IF "transition" \in DOMAIN st THEN st["transition"].v
                         ELSE "unset",
                  ref |-> IF "previousLoc" \in DOMAIN st THEN st["previousLoc"].ref
                          ELSE 0]
    IN IF op.fb # NoFb THEN op.fb
       ELSE Descriptor(IF op.target.pathname # NoPath THEN op.target.pathname
                       ELSE w.entries[w.index].pathname,
                       "", DOMAIN st # {}, state)

\* goBackUntilImpl: one call, the test and the goBackAsync(history) it calls
Until(op, w, pend) ==
    LET loc == w.entries[w.index]
    IN IF Matches(op, loc)
            THEN Out([op EXCEPT !.pc = "ready", !.phase = "matched"], w, pend, FALSE)
       ELSE IF GoBackRefuses(loc, UntilGuard)
            THEN Out([op EXCEPT !.pc = "ready", !.phase = "refused"], w, pend, FALSE)
       ELSE IssueGo([op EXCEPT !.phase = "rewind"], -1, w, pend)

\* what the callback given to navigate() does: returns a value (or a promise
\* that resolves), throws synchronously, or returns a promise that rejects
Callbacks == {"return", "throw", "reject"}

\* navigate(): `await callback()` when callback() was called; a synchronous
\* throw rejects the returned promise there and then
navigateCall(op) ==
    IF op.callback = "throw" THEN [op EXCEPT !.pc = "done", !.result = "rejected"]
    ELSE [op EXCEPT !.pc = "ready", !.phase = "await"]

\* navigate() after the await: unlock() and return, or the rejection of the
\* awaited promise thrown out of the function
navigateResume(op, w, pend) ==
    IF op.callback = "return" THEN Fin(op, "value", w, pend, FALSE)
    ELSE Out([op EXCEPT !.pc = "done", !.result = "rejected"], w, pend, FALSE)

\* one run of an operation from where it stands to its next await: the
\* synchronous part of the call (phase "start"), or what follows an await
\* once the awaited promise is resolved
Run(op, w, pend) ==
    LET loc == w.entries[w.index]
        composite == op.kind \in {"toKey", "toMatch"}
    IN
    IF op.kind = "navigate" THEN navigateResume(op, w, pend)
    ELSE IF op.phase \in {"resolve", "settle"}
    THEN Fin(op, IF op.kind \in {"back", "forward"} THEN "true" ELSE "void", w, pend, FALSE)
    ELSE IF op.phase = "matched"
    THEN Fin(op, IF composite THEN "true" ELSE "void", w, pend, FALSE)
    ELSE IF op.phase = "fallback"
    THEN Fin(op, IF composite THEN "false" ELSE "void", w, pend, FALSE)
    ELSE IF op.kind \in {"go", "forward"}
    THEN IssueGo([op EXCEPT !.phase = "resolve"], op.n, w, pend)
    ELSE IF op.kind = "back"
    THEN IF GoBackRefuses(loc, op.guard) THEN Fin(op, "false", w, pend, FALSE)
         ELSE IssueGo([op EXCEPT !.phase = "resolve"], -1, w, pend)
    ELSE IF op.kind = "push"
    THEN IssuePush([op EXCEPT !.phase = "resolve"], op.fb, op.st, w, pend)
    ELSE IF op.kind = "replace"
    THEN IssueReplace([op EXCEPT !.phase = "resolve"], op.fb, op.st, w, pend)
    ELSE IF op.kind = "until"
    THEN IF op.phase = "refused"
         THEN IssueReplace([op EXCEPT !.phase = "fallback"], UntilFallback(op, w),
                           NoState, w, pend)
         ELSE Until(op, w, pend)
    ELSE IF op.phase = "start"
    THEN Rewind([op EXCEPT !.startKey = loc.key], w, pend)
    ELSE IF op.phase = "rewind" THEN Rewind(op, w, pend)
    ELSE IF op.phase \in {"refused", "restore"} THEN Restore(op, w, pend)
    ELSE IF op.fb # NoFb
    THEN IssuePush([op EXCEPT !.phase = "fallback"], op.fb, NoState, w, pend)
    ELSE Fin(op, "false", w, pend, FALSE)

AllIdle == \A o \in OpIds : ops[o].pc = "idle"
NoneReady == \A o \in OpIds : ops[o].pc # "ready"

\* a caller invokes a facade method: navigate() takes the lock, and the body
\* runs within the call up to its first await
Start(o, kind, guard, n, target, fb, st) ==
    /\ ops[o].pc = "idle"
    /\ Len(updates) + 2 <= MaxUpdates
    /\ LET op == [Idle EXCEPT !.kind = kind, !.pc = "ready", !.phase = "start",
                              !.guard = guard, !.n = n, !.target = target,
                              !.fb = fb, !.st = st,
                              !.lock = IF UsesNavigate(kind) THEN "held" ELSE "none",
                              !.stack0 = entries, !.index0 = index, !.shown0 = shown]
           r == Run(op, World, pending)
           os == IF r.note THEN Notified(ops) ELSE ops
       IN /\ r.w.nextKey <= MaxKeys + 2
          /\ Len(r.pend) <= MaxPending
          /\ SetWorld(r.w)
          /\ pending' = r.pend
          /\ ops' = [os EXCEPT ![o] = r.op]
    /\ IF UsesNavigate(kind)
       THEN /\ lockCount' = lockCount + 1
            /\ \E eager \in BOOLEAN :
                  updates' = LockQueues(lockCount, updates, locationOverride, Location, eager)
            /\ lockedAt' = LiveAtLock(lockCount, lockedAt, Location)
       ELSE UNCHANGED <<lockCount, updates, lockedAt>>
    /\ UNCHANGED <<locationOverride, tokens, lockError, shown, routerVars>>

\* a caller invokes navigate(callback): lock(), then callback()
Navigate(o, cb) ==
    /\ ops[o].pc = "idle"
    /\ Len(updates) + 2 <= MaxUpdates
    /\ lockCount < MaxLocks
    /\ ops' = [ops EXCEPT ![o] =
                 navigateCall([Idle EXCEPT !.kind = "navigate", !.callback = cb,
                                           !.lock = "held", !.count0 = lockCount,
                                           !.stack0 = entries, !.index0 = index,
                                           !.shown0 = shown])]
    /\ lockCount' = lockCount + 1
    /\ \E eager \in BOOLEAN :
          updates' = LockQueues(lockCount, updates, locationOverride, Location, eager)
    /\ lockedAt' = LiveAtLock(lockCount, lockedAt, Location)
    /\ UNCHANGED <<nativeVars, trackerVars, locationOverride, tokens, lockError, shown, routerVars>>

\* the operation goes on after the promise it awaited was resolved, up to its
\* next await or to its end
Advance(o) ==
    /\ ops[o].pc = "ready"
    /\ LET r == Run(ops[o], World, pending)
           os == IF r.note THEN Notified(ops) ELSE ops
       IN /\ r.w.nextKey <= MaxKeys + 2
          /\ Len(r.pend) <= MaxPending
          /\ SetWorld(r.w)
          /\ pending' = r.pend
          /\ ops' = [os EXCEPT ![o] = r.op]
          /\ IF ops[o].lock = "held" /\ r.op.lock = "released"
             THEN /\ lockCount' = lockCount - 1
                  /\ updates' = UnlockQueues(lockCount, updates)
             ELSE UNCHANGED <<lockCount, updates>>
    /\ UNCHANGED <<locationOverride, tokens, lockError, shown, lockedAt, routerVars>>

\* the caller has taken the result
Dismiss(o) ==
    /\ ops[o].pc = "done"
    /\ ops' = [ops EXCEPT ![o] = Idle]
    /\ UNCHANGED <<nativeVars, trackerVars, lockerVars, routerVars>>


\* ------------------------------------------- the application and the stack
\* application code calls history.push(path, state)
AppPush(path, state, re) ==
    /\ nextKey + KeysUsed(re) <= MaxKeys + 1
    /\ SetWorld(historyPush(World, path, state, re))
    /\ ops' = Notified(ops)
    /\ UNCHANGED <<pending, lockerVars, routerVars>>

\* application code calls history.replace(path, state)
AppReplace(path, state, re) ==
    /\ nextKey + KeysUsed(re) <= MaxKeys + 1
    /\ SetWorld(historyReplace(World, path, state, re))
    /\ ops' = Notified(ops)
    /\ UNCHANGED <<pending, lockerVars, routerVars>>

\* application code calls history.go(n) / goBack() / goForward()
AppGo(n) ==
    /\ Len(pending) < MaxPending
    /\ pending' = Append(pending, n)
    /\ UNCHANGED <<entries, index, action, nextKey, trackerVars, lockerVars, ops, routerVars>>

\* the pop notification of the oldest go(n) not yet delivered arrives
DeliverPop(re) ==
    /\ pending # <<>>
    /\ NoneReady
    /\ nextKey + KeysUsed(re) <= MaxKeys + 2
    /\ SetWorld(historyPop(World, Head(pending), re))
    /\ pending' = Tail(pending)
    /\ ops' = Notified(ops)
    /\ UNCHANGED <<lockerVars, routerVars>>

\* a go(n) that would leave the stack: a browser moves nowhere inside the
\* application and sends no pop notification
DropPop ==
    /\ pending # <<>>
    /\ NoneReady
    /\ index + Head(pending) \notin 1 .. Len(entries)
    /\ pending' = Tail(pending)
    /\ UNCHANGED <<entries, index, action, nextKey, trackerVars, lockerVars, ops, routerVars>>

\* HistoryTracker.close(): the listener is detached; history.push and
\* history.replace stay replaced by the wrappers
Close ==
    /\ listening
    /\ listening' = FALSE
    /\ UNCHANGED <<nativeVars, lastLocation, lastMut, lockerVars, ops, routerVars>>

\* ------------------------------------------------------------- initial state
InitPaths == {"/a", "/x"}

\* after new HistoryTracker(history): one entry with a key and no previousLoc,
\* wrappers installed, nothing locked, nothing running; an entry loaded
\* without a key was replaced by the constructor with a copy that has one,
\* which leaves history.action REPLACE, an entry loaded with its key leaves
\* it POP
InitBase ==
    /\ \E p \in InitPaths : entries = <<Entry(1, p, "", NoPrev, "unset")>>
    /\ index = 1
    /\ action \in {"POP", "REPLACE"}
    /\ nextKey = 2
    /\ pending = <<>>
    /\ lastLocation = entries[1]
    /\ listening = TRUE
    /\ lastMut = NoMut
    /\ lockCount = 0
    /\ updates = <<>>
    /\ locationOverride = NoLoc
    /\ tokens = [t \in TokenIds |-> "unused"]
    /\ lockError = FALSE
    /\ shown = entries[1]
    /\ lockedAt = NoLoc
    /\ ops = [o \in OpIds |-> Idle]

InitRouterOff ==
    /\ sr = NoRouter
    /\ srProps = Props(NoLoc, "", FALSE)
    /\ srObs = NoObs
    /\ tabNav = NoNav
    /\ partialObs = NoPartialObs

\* a StackRouter mounted on the initial location, with or without a
\* transition prop. Mounted in the render that constructs the tracker, it
\* first renders the location the Router was constructed with, the keyless
\* one, and renders the keyed copy once the Router has mounted; mounted
\* later, or on an entry loaded with its key, it first renders the keyed entry
InitRouterOn ==
    /\ \E transition \in BOOLEAN, keyless \in BOOLEAN :
          /\ keyless => action = "REPLACE"
          /\ srProps = Props(entries[1], action, transition)
          /\ sr = IF keyless
                  THEN getDerivedStateFromProps(srProps,
                           getDerivedStateFromProps(
                               Props([entries[1] EXCEPT !.key = 0], action, transition),
                               SrInitial))
                  ELSE getDerivedStateFromProps(srProps, SrInitial)
    /\ srObs = NoObs
    /\ tabNav = NoNav
    /\ partialObs = NoPartialObs

\* ---------------------------------------------- tracker under any listener
CallerPrev == [key |-> 1, pathname |-> "/a", search |-> ""]
TrackerPaths == {Path("/a", ""), Path("/b", ""),
                 Descriptor("/b", "", FALSE, NoState),
                 Descriptor("/a", "", TRUE, CallerState(NoPrev, "off"))}
TrackerStates == {NoState, CallerState(CallerPrev, "unset"), CallerState(NoPrev, "on")}
ListenerCalls == {NoCall, Call("push", Path("/b", ""), NoState),
                  Call("replace", Path("/b", ""), NoState)}
Deltas == {-1, 1}

InitTracker == InitBase /\ InitRouterOff

NextTracker ==
    \/ \E p \in TrackerPaths, s \in TrackerStates, re \in ListenerCalls : AppPush(p, s, re)
    \/ \E p \in TrackerPaths, s \in TrackerStates, re \in ListenerCalls : AppReplace(p, s, re)
    \/ \E n \in Deltas : AppGo(n)
    \/ \E re \in ListenerCalls : DeliverPop(re)
    \/ DropPop
    \/ Close

SpecTracker == InitTracker /\ [][NextTracker]_vars

\* C1 (as claimed): the entry every push creates carries as previousLoc the
\* pathname and key of the entry that was active immediately before that
\* push, its state stripped -- also for a push made from inside a listener
\* (while the tracker is open).
C1_PushBacklinksActiveEntry ==
    listening /\ lastMut.kind = "push" => lastMut.made.prev = StripState(lastMut.before)

\* a push made from inside a change listener, with a wrong backlink
C1_ReentrantPushSeen ==
    /\ listening
    /\ lastMut.kind = "push"
    /\ lastMut.before.key # lastLocation.key
    /\ lastMut.made.prev # StripState(lastMut.before)

\* C2 (as claimed): a replace made while the active entry has a previousLoc
\* creates an entry with exactly that previousLoc, whatever state the caller
\* passed; when the active entry has none, the wrapper adds none (the entry
\* keeps what the caller passed).
C2_ReplaceKeepsBacklink ==
    listening /\ lastMut.kind = "replace" =>
        lastMut.made.prev = IF lastMut.before.prev # NoPrev THEN lastMut.before.prev
                            ELSE lastMut.caller.prev

\* a replace of an entry that has a backlink, which the new entry lost or changed
C2_ReplaceChangedBacklink ==
    /\ listening
    /\ lastMut.kind = "replace"
    /\ lastMut.before.prev # NoPrev
    /\ lastMut.made.prev # lastMut.before.prev

\* ------------------------------------------------- the lock on its own
LockerPaths == {Path("/a", ""), Path("/b", "")}

NextLocker ==
    \/ \E t \in TokenIds : Lock(t)
    \/ \E t \in TokenIds : Unlock(t)
    \/ Render
    \/ \E p \in LockerPaths : AppPush(p, NoState, NoCall)

SpecLocker == InitTracker /\ [][NextLocker]_vars

\* the unlock functions handed to direct callers of lock() and not yet called
Holders == Cardinality({t \in TokenIds : tokens[t] = "held"})

\* C3: the lock count is the number of unlock functions handed out and not
\* yet called, so a second call of one of them releases nothing; and the
\* override is cleared (the live location visible again once the queued
\* updates are applied) only when every unlock function has been called.
C3_EveryHolderMustUnlock ==
    /\ lockCount = Holders
    /\ ApplyUpdates(locationOverride, updates, Location).ov = NoLoc => Holders = 0

\* two locks taken, one unlock function called twice, the other not yet: the
\* subtree still sees the frozen location while the live one has moved on
C3_SecondUnlockSeen ==
    /\ \E t \in TokenIds : tokens[t] = "again"
    /\ \E t \in TokenIds : tokens[t] = "held"
    /\ updates = <<>>
    /\ shown = locationOverride
    /\ shown # Location

\* ------------------------------------ the facade, one operation at a time
FacadePaths == {Path("/a", ""), Path("/b", "")}
Fallbacks == {NoFb, Path("/f", "")}
\* a key no entry ever has
MissingKey == MaxKeys + 2
TargetPaths == {"/a", "/b", "/missing"}

\* the last render of the LocationLocker is up to date
Settled == updates = <<>> /\ shown = Exposed(locationOverride, Location)

\* a caller starts an operation while nothing else is going on
StartAlone(kind, guard, n, target, fb, st) ==
    /\ AllIdle
    /\ pending = <<>>
    /\ Settled
    /\ Start(1, kind, guard, n, target, fb, st)

NextFacade ==
    \/ AllIdle /\ \E p \in FacadePaths : AppPush(p, NoState, NoCall)
    \/ AllIdle /\ \E p \in FacadePaths : AppReplace(p, NoState, NoCall)
    \/ AllIdle /\ \E n \in Deltas : AppGo(n)
    \/ DeliverPop(NoCall)
    \/ DropPop
    \/ Render
    \/ \E n \in Deltas : StartAlone("go", FALSE, n, NoTarget, NoFb, NoState)
    \/ StartAlone("forward", FALSE, 1, NoTarget, NoFb, NoState)
    \/ \E g \in BOOLEAN : StartAlone("back", g, -1, NoTarget, NoFb, NoState)
    \/ \E p \in FacadePaths : StartAlone("push", FALSE, 0, NoTarget, p, NoState)
    \/ \E p \in FacadePaths : StartAlone("replace", FALSE, 0, NoTarget, p, NoState)
    \/ \E k \in (1 .. nextKey - 1) \cup {MissingKey}, fb \in Fallbacks :
          StartAlone("toKey", FALSE, 0, Partial(k, NoPath, NoPartialState), fb, NoState)
    \/ \E p \in TargetPaths, fb \in Fallbacks :
          StartAlone("toMatch", FALSE, 0, Partial(0, p, NoPartialState), fb, NoState)
    \/ \E p \in TargetPaths, fb \in Fallbacks :
          StartAlone("until", FALSE, 0, Partial(0, p, NoPartialState), fb, NoState)
    \/ Advance(1)
    \/ Dismiss(1)

InitFacade == InitTracker /\ entries[1].pathname = "/a"

SpecFacade == InitFacade /\ [][NextFacade]_vars

\* the entry an operation started on
StartLoc(op) == op.stack0[op.index0]

\* C4: goBackAsync(true) on an entry without previousLoc issues no native
\* mutation, leaves stack and cursor as they were and resolves false; in
\* every other case it issues exactly one back step and resolves true only
\* after the pop notification of that step.
C4_GuardedBack ==
    \A o \in OpIds :
        LET op == ops[o]
            refused == op.guard /\ StartLoc(op).prev = NoPrev
        IN op.kind = "back" =>
             IF refused
             THEN /\ op.pc = "done" /\ op.result = "false" /\ op.issued = 0
                  /\ pending = <<>>
                  /\ entries = op.stack0 /\ index = op.index0
             ELSE /\ op.issued = 1
                  /\ op.pc = "wait" => entries = op.stack0 /\ index = op.index0
                  /\ op.pc # "wait" =>
                        /\ pending = <<>> /\ action = "POP"
                        /\ entries = op.stack0
                        /\ index = Clamp(op.index0 - 1, Len(entries))
                  /\ op.pc = "done" => op.result = "true"

\* goBackAsync(true) has refused on the bottom entry of a stack of several
C4_RefusalSeen ==
    \E o \in OpIds :
        /\ ops[o].kind = "back" /\ ops[o].pc = "done" /\ ops[o].result = "false"
        /\ ops[o].guard /\ Len(entries) > 1 /\ index = 1

\* positions at or below the start whose entry the operation is looking for
\* and can step back to: goBackAsync(history, true) leaves no entry without
\* previousLoc, goBackUntil steps back from any entry
MatchesBelow(op) ==
    {i \in 1 .. op.index0 :
        /\ Matches(op, op.stack0[i])
        /\ op.kind = "until" \/ \A j \in i + 1 .. op.index0 : op.stack0[j].prev # NoPrev}
Highest(S) == CHOOSE i \in S : \A j \in S : j <= i

\* C5: goBackToKey / goBackToMatch run alone: when an entry at or below the
\* cursor matches, the operation resolves true, the stack is as it was and
\* the cursor is on the nearest such entry at or below the start; when the
\* starting entry matches, no mutation was issued.
C5_RewindLandsOnNearestMatch ==
    \A o \in OpIds :
        LET op == ops[o]
        IN op.kind \in {"toKey", "toMatch"} /\ MatchesBelow(op) # {} =>
             /\ op.pc = "done" =>
                  /\ op.result = "true"
                  /\ entries = op.stack0
                  /\ index = Highest(MatchesBelow(op))
                  /\ pending = <<>>
                  /\ op.index0 \in MatchesBelow(op) => op.issued = 0
             /\ index >= Highest(MatchesBelow(op))
             /\ op.phase \in {"rewind", "matched"}

\* a rewind over two or more entries has landed on its target
C5_DeepRewindSeen ==
    \E o \in OpIds :
        /\ ops[o].kind \in {"toKey", "toMatch"} /\ ops[o].pc = "done"
        /\ ops[o].result = "true"
        /\ index + 2 <= ops[o].index0

\* C6: goBackToKey / goBackToMatch run alone, nothing at or below the cursor
\* matching: the operation resolves false; without a fallback stack and
\* cursor are as before the call; with one, the entries up to the starting
\* entry are as before and exactly one new entry, the fallback, lies
\* directly on top of the starting entry, under the cursor.
C6_ExhaustionRestores ==
    \A o \in OpIds :
        LET op == ops[o]
        IN op.kind \in {"toKey", "toMatch"} /\ MatchesBelow(op) = {} /\ op.pc = "done" =>
             /\ op.result = "false"
             /\ pending = <<>>
             /\ IF op.fb = NoFb
                THEN entries = op.stack0 /\ index = op.index0
                ELSE /\ index = op.index0 + 1
                     /\ Len(entries) = index
                     /\ SubSeq(entries, 1, op.index0) = SubSeq(op.stack0, 1, op.index0)
                     /\ Location.pathname = op.fb.pathname
                     /\ Location.prev = StripState(StartLoc(op))

\* an exhausted rewind from the third entry has put the fallback on top of it
C6_FallbackSeen ==
    \E o \in OpIds :
        /\ ops[o].kind \in {"toKey", "toMatch"} /\ ops[o].pc = "done"
        /\ ops[o].result = "false" /\ ops[o].fb # NoFb
        /\ ops[o].index0 >= 3 /\ ops[o].issued = 2

\* C7 (as claimed): goBackUntil, when nothing it can go back to matches,
\* replaces the oldest entry with the fallback, completes and releases the
\* lock -- so it never issues a back step from the oldest entry.
C7_UntilReplacesOldestEntry ==
    \A o \in OpIds :
        LET op == ops[o]
        IN op.kind = "until" =>
             /\ op.pc = "wait" => index > 1
             /\ op.pc = "done" /\ MatchesBelow(op) = {} =>
                   /\ entries[1].pathname = UntilFallback(op, World).pathname
                   /\ op.lock = "released"

\* goBackUntil is waiting for a back step it issued from the oldest entry
C7_BackStepFromOldestSeen ==
    \E o \in OpIds :
        /\ ops[o].kind = "until" /\ ops[o].pc = "wait" /\ index = 1
        /\ ops[o].lock = "held"

InFlight(op) == op.pc \in {"ready", "wait"}

\* C8 (as claimed): every facade operation holds the lock from before its
\* first native mutation until it resolves.
C8_EveryOperationLocks ==
    \A o \in OpIds :
        InFlight(ops[o]) /\ ops[o].issued > 0 => ops[o].lock = "held" /\ lockCount > 0

\* goAsync has issued history.go(n) and waits for its notification while no
\* lock is held at all
C8_PrimitiveWithoutLockSeen ==
    \E o \in OpIds :
        /\ ops[o].kind = "go" /\ ops[o].pc = "wait" /\ ops[o].issued = 1
        /\ ops[o].lock = "none" /\ lockCount = 0
        /\ pending # <<>>

\* C9 (as claimed): while a composite operation is in flight the location
\* exposed to the locked subtree is the one exposed when it started, the
\* location the operation started on.
C9_SubtreeFrozenDuringOperation ==
    \A o \in OpIds :
        LET op == ops[o]
        IN op.kind \in {"toKey", "toMatch", "until"} /\ InFlight(op) =>
             shown \in {op.shown0, StartLoc(op)}

\* the subtree is shown an entry the operation is only passing through
C9_IntermediateLocationShown ==
    \E o \in OpIds :
        /\ ops[o].kind \in {"toKey", "toMatch"} /\ InFlight(ops[o])
        /\ shown.key # StartLoc(ops[o]).key
        /\ ~Matches(ops[o], shown)
        /\ shown = locationOverride

\* ------------------------------------------- the StackRouter on the stack
\* /f is a page no route of the StackRouter matches
RouterPaths == {Path("/a", ""), Path("/b", ""), Path("/c", ""), Path("/x", ""),
                Path("/f", "")}
Transitions == {"unset", "on", "off"}

InitRouter == InitBase /\ InitRouterOn

NextRouter ==
    \/ /\ RouterCommitted /\ nextKey <= MaxRouterKeys + 1
       /\ \E p \in RouterPaths, t \in Transitions : AppPush(p, CallerState(NoPrev, t), NoCall)
    \/ /\ RouterCommitted /\ nextKey <= MaxRouterKeys + 1
       /\ \E p \in RouterPaths, t \in Transitions : AppReplace(p, CallerState(NoPrev, t), NoCall)
    \/ RouterCommitted /\ \E n \in Deltas : AppGo(n)
    \/ RouterCommitted /\ DeliverPop(NoCall)
    \/ RouterCommitted /\ DropPop
    \/ Render
    \/ DidUpdate

SpecRouter == InitRouter /\ [][NextRouter]_vars

\* C10 (as claimed): a change between two locations of one RouteGroup retains no outgoing
\* screen and keeps the key of the rendered screen (a plain swap: nothing
\* enters, nothing exits), whatever the action and state.transition.
C10_NoTransitionInsideGroup ==
    srObs.to # NoLoc
    /\ getLocationRouteGroup(srObs.from) # 0
    /\ getLocationRouteGroup(srObs.from) = getLocationRouteGroup(srObs.to)
    => /\ ~srObs.retained
       /\ srObs.keyAfter = srObs.keyBefore
       /\ RenderedKey(sr) = srObs.keyBefore

\* a replace inside a group, the first change after a mount on a keyless
\* location: the screen rendered without a key is rendered under the key of
\* the location replaced, so one screen exits and one enters
C10_KeyChangedInsideGroupSeen ==
    /\ srObs.to # NoLoc /\ srObs.from.pathname = "/a" /\ srObs.to.pathname = "/b"
    /\ srObs.to.tr = "unset" /\ srObs.action = "REPLACE"
    /\ srObs.keyBefore = 0 /\ srObs.keyAfter = srObs.from.key /\ srObs.keyAfter # 0

\* the router has handled a PUSH without state.transition between two
\* locations that resolve to different RouteGroups (null counts as a group
\* of its own kind: a page outside every group)
CrossGroupPush ==
    /\ srObs.to # NoLoc
    /\ srObs.action = "PUSH" /\ srObs.to.tr = "unset"
    /\ getLocationRouteGroup(srObs.from) # getLocationRouteGroup(srObs.to)

\* C11 (as claimed): a PUSH with state.transition unset between locations of
\* different RouteGroups, two distinct groups included, retains the outgoing
\* screen and renders with the transition's animation parameters (the router
\* has a transition prop and a route for the retained location).
C11_CrossGroupPushAnimates ==
    CrossGroupPush /\ srProps.transition /\ Screen(srObs.old) # NoLoc
    => srObs.retained /\ srObs.animate

\* a PUSH from one RouteGroup to another: the outgoing screen is retained but
\* the screens are rendered without animation parameters
C11_GroupToGroupNotAnimated ==
    /\ CrossGroupPush
    /\ srProps.transition
    /\ getLocationRouteGroup(srObs.from) # 0
    /\ getLocationRouteGroup(srObs.to) # 0
    /\ srObs.retained
    /\ ~srObs.animate

\* ------------------------------------------------- TabLinks on the stack
TabPaths == {Path("/a", ""), Path("/a", "?i"), Path("/b", ""), Path("/x", "")}
\* the `to` of a TabLink: a string, or a location descriptor
TabDestinations ==
    TabPaths \cup {Path("/a/n", "")}
        \cup {Descriptor(d.pathname, d.search, FALSE, NoState) : d \in TabPaths}

NextTabs ==
    \/ nextKey <= MaxRouterKeys + 1 /\ \E p \in TabPaths : AppPush(p, NoState, NoCall)
    \/ pending = <<>> /\ \E n \in Deltas : AppGo(n)
    \/ DeliverPop(NoCall)
    \/ DropPop
    \/ \E c \in DOMAIN TabConfigs, d \in TabDestinations : pending = <<>> /\ TabLinkRender(c, d)

SpecTabs == InitTracker /\ [][NextTabs]_vars

\* C12 (as claimed): getNavigationType returns PUSH when the current location
\* is outside the tab group, or the location the destination names is, or the
\* current location matches the index; otherwise POP exactly when the
\* destination's location matches the index and the pathname of the current
\* entry's previousLoc matches the index; otherwise REPLACE.
C12_NavigationTypeClassified ==
    tabNav.props # 0 =>
        LET props == TabConfigs[tabNav.props]
            named(l) == Descriptor(l.pathname, l.search, FALSE, NoState)
            inGroup(l) ==
                \E i \in DOMAIN props.paths : matchPathExtended(named(l), props.paths[i])
            isIndex(l) == matchPathExtended(named(l), props.index)
            pushes == ~inGroup(tabNav.from) \/ ~inGroup(tabNav.dest) \/ isIndex(tabNav.from)
            pops == /\ isIndex(tabNav.dest)
                    /\ tabNav.from.prev # NoPrev
                    /\ isIndex(Path(tabNav.from.prev.pathname, ""))
        IN /\ tabNav.type \in {"PUSH", "POP", "REPLACE"}
           /\ tabNav.type = "PUSH" <=> pushes
           /\ tabNav.type = "POP" <=> ~pushes /\ pops
           /\ tabNav.type = "REPLACE" <=> ~pushes /\ ~pops

\* a link from the tab /b to the string "/a?i", a location of the group:
\* the whole string matches no template and the link is a PUSH
C12_StringWithSearchSeenAsPush ==
    /\ tabNav.props = 1 /\ tabNav.type = "PUSH"
    /\ tabNav.from.pathname = "/b" /\ tabNav.from.search = ""
    /\ tabNav.dest = Path("/a", "?i")

\* ------------------------------------- locationPartialMatches on the stack
MatchPaths == {Path("/a", "?i"), Path("/b", "")}
MatchTransitions == {"unset", "on"}
PartialPathnames == {NoPath, "/a"}
PartialStateKeys == {"transition", "previousLoc"}
\* the values a caller may give under each key of partial.state
\* previousLoc: an object of the caller's own, or the previousLoc object the
\* active or the top entry holds (read from history.location.state earlier)
StoredObjects ==
    {Obj(entries[i].ref) : i \in {j \in {index, Len(entries)} : entries[j].ref # 0}}
PartialValues(k) ==
    IF k = "transition" THEN {Prim("on"), Prim("off")}
    ELSE {OwnObject} \cup StoredObjects
PartialStates ==
    UNION {{st \in [K -> {Prim("on"), Prim("off"), OwnObject} \cup StoredObjects] :
                \A k \in K : st[k] \in PartialValues(k)} : K \in SUBSET PartialStateKeys}

NextMatch ==
    \/ nextKey <= MaxRouterKeys /\ \E p \in MatchPaths, t \in MatchTransitions :
          AppPush(p, CallerState(NoPrev, t), NoCall)
    \/ nextKey <= MaxRouterKeys + 1 /\ AppReplace(Path("/a", "?i"), NoState, NoCall)
    \/ pending = <<>> /\ \E n \in Deltas : AppGo(n)
    \/ DeliverPop(NoCall)
    \/ DropPop
    \/ \E k \in {0, 1, Location.key}, p \in PartialPathnames, st \in PartialStates :
          pending = <<>> /\ MatchPartial(Partial(k, p, st))

SpecMatch == InitTracker /\ [][NextMatch]_vars

\* C13: locationPartialMatches(location, partial) is true exactly when the
\* partial's key is absent or equal to the location's, its pathname is absent
\* or equal, and every key of partial.state holds a strictly equal value in
\* location.state (nothing, when the location has no state); the search has
\* no part in it. A previousLoc is equal by identity: the object the entry
\* holds, which a replace hands on from the entry it replaces.
C13_PartialMatchExactly ==
    partialObs.called =>
        LET l == partialObs.location
            q == partialObs.partial
            keyOk == q.key = 0 \/ q.key = l.key
            pathOk == q.pathname = NoPath \/ q.pathname = l.pathname
            transitionOk == "transition" \in DOMAIN q.state =>
                                l.tr # "unset" /\ q.state["transition"] = Prim(l.tr)
            previousLocOk == "previousLoc" \in DOMAIN q.state =>
                                l.prev # NoPrev /\ q.state["previousLoc"] = Obj(l.ref)
        IN partialObs.result <=> keyOk /\ pathOk /\ transitionOk /\ previousLocOk

\* a match on key, pathname and one state key, of a location with a search
\* and with more state than the partial names
C13_PartialStateMatchSeen ==
    /\ partialObs.called /\ partialObs.result
    /\ partialObs.location.search = "?i"
    /\ partialObs.location.prev # NoPrev
    /\ partialObs.partial.key # 0
    /\ partialObs.partial.pathname = "/a"
    /\ DOMAIN partialObs.partial.state = {"transition"}

\* C14 (as claimed): a lock() call that takes the count from 0 to 1 while a
\* frozen snapshot is still in place fails at once with 'Location is already
\* locked. Please unlock first' and leaves count and snapshot as they were.
C14_RelockFailsAtOnce ==
    [][(\E t \in TokenIds : Lock(t)) /\ lockCount = 0 /\ locationOverride # NoLoc
          => lockError' /\ lockCount' = lockCount /\ locationOverride' = locationOverride]_vars

\* lock() was called at count 0 while the snapshot of the sequence before was
\* still in place: the count went up and nothing was thrown
C14_RelockBeforeRenderSeen ==
    /\ lockCount = 1 /\ locationOverride # NoLoc /\ ~lockError
    /\ Len(updates) = 2
    /\ updates[1].kind = "clear" /\ updates[2].kind = "lock"

\* C15 (as claimed): once the component has rendered with the count above 0,
\* the location it exposes is the one that was live when lock() took the
\* count from 0 to 1, whatever was pushed between that call and the render
\* and however many lock() calls followed; with the count back at 0 the
\* override is gone, so the live location is exposed.
C15_SnapshotIsLocationAtLock ==
    updates = <<>> /\ ~lockError =>
        /\ lockCount > 0 => locationOverride = lockedAt /\ shown = lockedAt
        /\ lockCount = 0 => locationOverride = NoLoc

\* a push right after lock(), before the render: the subtree is frozen on the
\* pushed location instead of the one that was live at lock()
C15_SnapshotTakenLateSeen ==
    /\ lockCount > 0 /\ updates = <<>> /\ ~lockError
    /\ locationOverride = Location
    /\ shown = Location
    /\ lockedAt # Location
    /\ lastMut.kind = "push" /\ lastMut.before = lockedAt

\* --------------------------------------- the facade, operations overlapping
\* a caller starts an operation while another one may be waiting
StartBeside(o, kind, n, target, fb) ==
    /\ NoneReady
    /\ Settled
    /\ Start(o, kind, FALSE, n, target, fb, NoState)

\* operations side by side, and an application that pushes at any moment,
\* also between two turns of an operation
NextOverlap ==
    \/ \E o \in OpIds, n \in Deltas : StartBeside(o, "go", n, NoTarget, NoFb)
    \/ \E o \in OpIds, p \in FacadePaths : StartBeside(o, "push", 0, NoTarget, p)
    \/ \E o \in OpIds, p \in FacadePaths : StartBeside(o, "replace", 0, NoTarget, p)
    \/ /\ AllIdle /\ nextKey <= MaxRouterKeys + 1
       /\ \E k \in {1, MissingKey}, fb \in Fallbacks :
             StartBeside(1, "toKey", 0, Partial(k, NoPath, NoPartialState), fb)
    \/ /\ AllIdle /\ nextKey <= MaxRouterKeys + 1
       /\ StartBeside(1, "until", 0, Partial(0, "/a", NoPartialState), NoFb)
    \/ nextKey <= MaxRouterKeys /\ AppPush(Path("/b", ""), NoState, NoCall)
    \/ \E o \in OpIds : Advance(o)
    \/ \E o \in OpIds : Dismiss(o)
    \/ DeliverPop(NoCall)
    \/ DropPop
    \/ Render

SpecOverlap == InitFacade /\ [][NextOverlap]_vars

\* the promise of the operation has been resolved
Resolved(op) == op.pc = "done" \/ (op.pc = "ready" /\ op.phase = "resolve")

\* the operations still waiting for the notification of a go(n) they issued
GoWaiting == {o \in OpIds : ops[o].pc = "wait"}

\* C16 (as claimed): goAsync, pushAsync and replaceAsync issue one native
\* mutation each, and the promise is resolved by that mutation's own
\* notification: every go(n) still to be delivered belongs to an operation
\* that is still waiting, also while other operations are outstanding.
C16_ResolvedByOwnNotification ==
    /\ \A o \in OpIds :
          ops[o].kind \in {"go", "push", "replace"} /\ Resolved(ops[o]) => ops[o].issued = 1
    /\ Len(pending) <= Cardinality(GoWaiting)

\* goAsync resolved by the notification of another operation's push while
\* its own go(n) has not been delivered
C16_GoResolvedByOtherPushSeen ==
    \E o, q \in OpIds :
        /\ ops[o].kind = "go" /\ Resolved(ops[o]) /\ pending # <<>>
        /\ ops[q].kind = "push" /\ Resolved(ops[q])
        /\ GoWaiting = {}

\* the change the router handled last asked for no transition: its entry
\* sets transition:false, or sets nothing and the action is REPLACE
ChangeWithoutTransition ==
    /\ srObs.to # NoLoc
    /\ \/ srObs.to.tr = "off"
       \/ srObs.to.tr = "unset" /\ srObs.action = "REPLACE"

\* C17 (as claimed): a change whose entry sets transition:false, or sets nothing under a
\* REPLACE, shows the new location's screen with no retained screen, under the key
\* rendered before, and leaves state.from as it was; a change whose entry sets
\* transition:true goes through the transition test whatever the action: it
\* retains the remembered location's screen under a new key unless both locations are
\* in the same group, in which case nothing changes.
C17_TransitionOverride ==
    /\ ChangeWithoutTransition
       => /\ ~srObs.retained
          /\ srObs.rendered = Screen(srObs.to)
          /\ srObs.keyAfter = srObs.keyBefore
          /\ srObs.fromAfter = srObs.fromBefore
    /\ srObs.to # NoLoc /\ srObs.to.tr = "on"
       => IF areLocationsInSameGroup(srObs.to, srObs.old)
          THEN /\ ~srObs.retained
               /\ srObs.keyAfter = srObs.keyBefore
               /\ srObs.fromAfter = srObs.fromBefore
          ELSE /\ srObs.retained
               /\ srObs.rendered = Screen(srObs.old)
               /\ srObs.keyAfter = srObs.to.key
               /\ srObs.fromAfter = srObs.old

\* a PUSH with transition:false to a page of another group, the first change
\* after a mount on a keyless location: keyOverride, still unset, takes the
\* key of the location left, and the new screen is rendered under that key
\* and not under the one rendered before
C17_KeyChangedWithoutTransitionSeen ==
    /\ srObs.to # NoLoc
    /\ srObs.to.tr = "off" /\ srObs.action = "PUSH"
    /\ ~areLocationsInSameGroup(srObs.to, srObs.old)
    /\ ~srObs.retained
    /\ srObs.keyBefore = 0 /\ srObs.keyAfter = srObs.old.key /\ srObs.keyAfter # 0

\* the StackRouter is in Transitioning: it renders the retained screen
Transitioning == sr.renderPreviousData

\* C18: a step into Transitioning comes with a location change and renders
\* state.previousLocation (the outgoing location the router remembered) under
\* the key rendered before; the one step out of Transitioning is the next
\* update, which clears renderPreviousData, previousLocation and previousKey
\* and leaves the router Steady on the exposed location; a step without a
\* location change never enters Transitioning.
C18_RetainedForOneRenderCycle ==
    [][ /\ ~Transitioning /\ Transitioning'
           => /\ srProps'.location # srProps.location
              /\ RenderedLocation(sr', srProps') = sr'.previousLocation
              /\ sr'.previousLocation = sr'.from
              /\ RenderedKey(sr') = RenderedKey(sr)
        /\ Transitioning
           => /\ ~Transitioning'
              /\ sr'.previousLocation = NoLoc /\ sr'.previousKey = 0
              /\ srProps' = srProps
              /\ RenderedLocation(sr', srProps') = shown'
              /\ RenderedKey(sr') = srProps.location.key
      ]_vars

\* the change handled last retained the outgoing screen, and the update
\* after it has dropped that screen
C18_RetainedScreenDroppedSeen ==
    /\ srObs.to # NoLoc /\ srObs.retained
    /\ srObs.to = srProps.location
    /\ ~Transitioning
    /\ sr.previousLocation = NoLoc

\* the entry left by the change the router handled last carries a previousLoc
\* with the key of the incoming entry
PreviousLocIsIncoming ==
    srObs.from.prev # NoPrev /\ srObs.from.prev.key = srObs.to.key

\* C19 (as claimed): when a change enters Transitioning, isNextPage is false
\* exactly when the entry that was rendered before the change carries a
\* previousLoc with the key of the incoming entry, whatever the action.
C19_DirectionFromPreviousEntry ==
    srObs.to # NoLoc /\ srObs.retained
    => (srObs.isNextPage <=> ~PreviousLocIsIncoming)

\* a POP back to the entry the rendered one was pushed from, classified as a
\* forward step: the router compared with an older location (one pushed with
\* transition:false) instead of the rendered one
C19_BackStepSeenAsNextPage ==
    /\ srObs.to # NoLoc /\ srObs.retained
    /\ srObs.action = "POP"
    /\ PreviousLocIsIncoming
    /\ srObs.isNextPage
    /\ srObs.old # srObs.from /\ srObs.old.tr = "off"

\* the notification an operation waits for will arrive: the go(n) it issued
\* is outstanding and lands inside the stack
Answered == pending # <<>> /\ index + Head(pending) \in 1 .. Len(entries)

\* C20 (as claimed): goBackToKey, goBackToMatch and goBackUntil run to
\* completion and release their lock from every starting position and for
\* every target; an operation can only complete if each notification it
\* waits for arrives.
C20_CompositeOperationsComplete ==
    \A o \in OpIds :
        UsesNavigate(ops[o].kind) /\ ops[o].pc = "wait" => Answered

\* goBackUntil with a target that is nowhere on the stack has stepped back
\* from the oldest entry: no notification is outstanding, the operation
\* waits, its lock is held and the subtree stays frozen
C20_UntilHangsWithLockSeen ==
    \E o \in OpIds :
        /\ ops[o].kind = "until" /\ ops[o].pc = "wait"
        /\ \A i \in DOMAIN entries : ~Matches(ops[o], entries[i])
        /\ pending = <<>>
        /\ ops[o].lock = "held" /\ lockCount = 1
        /\ updates = <<>> /\ locationOverride # NoLoc

\* ------------------------------------------------ backlinks along the stack
\* every caller passes a state without previousLoc; a listener registered
\* before the tracker's may itself call push or replace; goBackAsync(true)
\* is called between changes
NextLinks ==
    \/ AllIdle /\ \E p \in TrackerPaths, re \in ListenerCalls : AppPush(p, NoState, re)
    \/ AllIdle /\ \E p \in TrackerPaths, re \in ListenerCalls : AppReplace(p, NoState, re)
    \/ AllIdle /\ \E n \in Deltas : AppGo(n)
    \/ \E re \in ListenerCalls : DeliverPop(re)
    \/ DropPop
    \/ StartAlone("back", TRUE, -1, NoTarget, NoFb, NoState)
    \/ Advance(1)
    \/ Dismiss(1)
    \/ Render

SpecLinks == InitTracker /\ [][NextLinks]_vars

\* the entry at position i carries a previousLoc
HasPreviousLoc(i) == entries[i].prev # NoPrev

\* C21 (as claimed): from one initial entry without previousLoc, under pushes
\* and replaces whose caller state has no previousLoc and go steps, an entry
\* carries a previousLoc exactly when it is not the bottom entry; so
\* goBackAsync(true) refuses exactly when started on the bottom entry and
\* issues its back step only from above it.
C21_BacklinkIffNotBottom ==
    /\ \A i \in DOMAIN entries : HasPreviousLoc(i) <=> i > 1
    /\ \A o \in OpIds :
          LET op == ops[o]
          IN op.kind = "back" /\ op.guard
             => /\ (op.pc = "done" /\ op.result = "false") <=> op.index0 = 1
                /\ op.issued > 0 => op.index0 > 1

\* goBackAsync(true) has refused above the bottom entry: the entry it started
\* on was made by a replace called from a listener during a push notification
\* and carries no previousLoc
C21_RefusalAboveBottomSeen ==
    \E o \in OpIds :
        /\ ops[o].kind = "back" /\ ops[o].guard
        /\ ops[o].pc = "done" /\ ops[o].result = "false"
        /\ ops[o].index0 > 1
        /\ ops[o].stack0[ops[o].index0].prev = NoPrev

\* ----------------------------------------------- navigate() and its lock
\* navigate(callback) called when no other operation is outstanding, for each
\* way the callback can end, between pushes and renders
NextNavigate ==
    \/ AllIdle /\ \E cb \in Callbacks : Navigate(1, cb)
    \/ Advance(1)
    \/ Dismiss(1)
    \/ Render
    \/ AllIdle /\ \E p \in LockerPaths : AppPush(p, NoState, NoCall)

SpecNavigate == InitTracker /\ [][NextNavigate]_vars

\* the promise returned by navigate() settles in this step
NavigateSettles(o) ==
    ops'[o].kind = "navigate" /\ ops[o].pc # "done" /\ ops'[o].pc = "done"

\* C22 (as claimed): when the promise returned by navigate(callback) settles,
\* whether the callback returned, threw or returned a rejected promise, the
\* lock count is what it was before the call.
C22_NavigateReleasesLock ==
    [][\A o \in OpIds : NavigateSettles(o) => lockCount' = ops'[o].count0]_vars

\* navigate() has settled with the rejection of the promise its callback
\* returned, and the lock count is still one above its value before the call
C22_RejectedCallbackKeepsLockSeen ==
    \E o \in OpIds :
        /\ ops[o].kind = "navigate" /\ ops[o].callback = "reject"
        /\ ops[o].pc = "done" /\ ops[o].result = "rejected"
        /\ lockCount = ops[o].count0 + 1

\* C23 (as claimed): when a change enters Transitioning, the retained screen
\* is the screen of the location rendered immediately before the change, and
\* state.from is that location, whatever changes came before.
C23_RetainedIsLastRendered ==
    srObs.to # NoLoc /\ srObs.retained
    => /\ srObs.rendered = Screen(srObs.from)
       /\ srObs.fromAfter = srObs.from

\* after a push from /a to /b inside one RouteGroup, a push to a page
\* outside the groups retains /a, not /b which was on screen
C23_StaleOutgoingScreenSeen ==
    /\ srObs.to # NoLoc /\ srObs.retained
    /\ srObs.action = "PUSH"
    /\ srObs.from.pathname = "/b" /\ srObs.from.prev.pathname = "/a"
    /\ srObs.to.pathname = "/x" /\ srObs.to.prev.key = srObs.from.key
    /\ srObs.rendered.pathname = "/a" /\ srObs.rendered.key = srObs.from.prev.key
    /\ srObs.fromAfter = srObs.rendered

\* ------------------------------------- rewinds under a mounted StackRouter
RewindPaths == {Path("/x", ""), Path("/y", ""), Path("/a", "")}

\* pushes, single steps and goBackToKey on a stack rendered by a StackRouter
\* below the LocationLocker
NextRewind ==
    \/ /\ RouterCommitted /\ nextKey <= MaxRouterKeys + 1
       /\ AllIdle /\ \E p \in RewindPaths : AppPush(p, NoState, NoCall)
    \/ RouterCommitted /\ AllIdle /\ \E n \in Deltas : AppGo(n)
    \/ RouterCommitted /\ DeliverPop(NoCall)
    \/ RouterCommitted /\ DropPop
    \/ /\ RouterCommitted
       /\ \E k \in 1 .. nextKey - 1 :
             StartAlone("toKey", FALSE, 0, Partial(k, NoPath, NoPartialState), NoFb, NoState)
    \/ RouterCommitted /\ Advance(1)
    \/ RouterCommitted /\ Dismiss(1)
    \/ Render
    \/ DidUpdate

SpecRewind == InitRouter /\ [][NextRewind]_vars

\* position in the native stack of the entry with key k, 0 when it has none
Position(k) ==
    IF \E i \in DOMAIN entries : entries[i].key = k
    THEN CHOOSE i \in DOMAIN entries : entries[i].key = k
    ELSE 0

\* the change the router handled last went down the native stack
WentDown ==
    /\ srObs.to # NoLoc
    /\ Position(srObs.from.key) > 0 /\ Position(srObs.to.key) > 0
    /\ Position(srObs.to.key) < Position(srObs.from.key)

\* C24 (as claimed): a transition whose incoming entry lies below the outgoing
\* entry in the native stack has isNextPage = false, the one change rendered
\* after goBackToKey rewound several entries under the lock included.
C24_DownwardIsBackward ==
    WentDown /\ srObs.retained => ~srObs.isNextPage

\* goBackToKey has rewound two entries under the lock; the router, which
\* remembered the entry on screen, renders the one change from the top entry
\* to the target and classifies it as a next page
C24_DeepRewindSeenAsNextPage ==
    /\ WentDown /\ srObs.retained /\ srObs.isNextPage
    /\ srObs.old = srObs.from
    /\ Position(srObs.from.key) - Position(srObs.to.key) >= 2
    /\ ops[1].kind = "toKey" /\ ops[1].pc = "done" /\ ops[1].result = "true"
    /\ srObs.from = ops[1].shown0 /\ srObs.to.key = ops[1].target.key

\* C25 (as claimed): every entry of the native stack that carries a
\* previousLoc lies directly above the entry whose key that previousLoc
\* records, after any pushes, replaces and go steps.
C25_BacklinkNamesEntryBelow ==
    \A i \in DOMAIN entries :
        HasPreviousLoc(i) => i > 1 /\ entries[i].prev.key = entries[i - 1].key

\* after a step back the lower entry was replaced: it has a new key, and the
\* entry above still records the key of the entry that is gone
C25_ReplacedBelowSeen ==
    /\ Len(entries) >= 2 /\ index = 1
    /\ lastMut.kind = "replace" /\ lastMut.made = entries[1]
    /\ HasPreviousLoc(2)
    /\ entries[2].prev.key = lastMut.before.key
    /\ entries[2].prev.key # entries[1].key

\* C26: under any interleaving of lock() and unlock calls the lock count is
\* never negative, and the override that results from applying the queued
\* state updates is a snapshot exactly when the count is above 0 (no updater
\* throws on the way).
C26_SnapshotIffLocked ==
    LET r == ApplyUpdates(locationOverride, updates, Location)
    IN /\ lockCount >= 0
       /\ ~lockError /\ ~r.err
       /\ r.ov # NoLoc <=> lockCount > 0

\* lock, unlock and lock again before any render: three updates are queued,
\* one unlock function is spent and one lock is held
C26_RelockQueuedSeen ==
    /\ Len(updates) = 3
    /\ lockCount = 1
    /\ \E t \in TokenIds : tokens[t] = "dead"
    /\ \E t \in TokenIds : tokens[t] = "held"
    /\ locationOverride = NoLoc
====
